---- MODULE Spec2Model ----
(***************************************************************************)
(* A model of src/plugins/messageStorage/sqlite.js: the per-client sqlite  *)
(* message store of The Lounge.  The state is the MessageStorage object    *)
(* (isEnabled, database), the node-sqlite3 handles it opened (each with    *)
(* its queue of scheduled statements), the database file the handles work  *)
(* on, the client's message-id counter, and the outcome last observed by   *)
(* the caller.                                                             *)
(***************************************************************************)
EXTENDS Integers, Sequences, FiniteSets, TLC

VARIABLES
    sqlite3,      \* whether require("sqlite3") succeeded (module level, line 9-19)
    maxHistory,   \* Helper.config.maxHistory
    isEnabled,    \* this.isEnabled
    database,     \* this.database: 0 while unassigned, else an index into handles
    handles,      \* the sqlite3.Database objects created so far
    file,         \* the tables and rows of <client>.sqlite3
    idMsg,        \* this.client.idMsg
    last,         \* outcome of the last call, promise settlement or callback
    pager         \* a caller that follows search cursors page after page

vars == <<sqlite3, maxHistory, isEnabled, database, handles, file, idMsg, last, pager>>

(***************************************************************************)
(* Bounds of the model.                                                    *)
(***************************************************************************)
MaxRows == 3        \* rows the messages table may hold (data specifications)
MaxQueue == 1       \* caller statements waiting on one handle
MaxHandles == 2     \* sqlite3.Database objects ever created
MaxId == 3          \* cap of client.idMsg
MaxRowid == 3       \* largest rowid handed out
Extra == 2          \* rows beyond one search page (paging specification)
MaxTerm == 2        \* characters of a search term (escaping specification)
MaxText == 3        \* characters of a stored text (escaping specification)

(***************************************************************************)
(* Program constants.                                                      *)
(***************************************************************************)
currentSchemaVersion == 1520239200
maxResults == 100
UnlimitedHistory == 100000
\* JavaScript's undefined where a number is expected (an absent property, an
\* absent query field); bound to a statement it is SQL NULL.
undefined == -9

(***************************************************************************)
(* Sequences.                                                              *)
(***************************************************************************)
Min(a, b) == IF a < b THEN a ELSE b

Range(s) == {s[i] : i \in DOMAIN s}

\* Array.prototype.reverse
Reverse(s) == [i \in 1..Len(s) |-> s[Len(s) + 1 - i]]

\* a faulty variant: the statement without its LIMIT
LimitOff(s, n) == s

\* SQL LIMIT n
Limit(s, n) == SubSeq(s, 1, Min(Len(s), n))

(***************************************************************************)
(* Strings are sequences of one-character strings.                         *)
(***************************************************************************)
LowerChar(c) ==
    CASE c = "A" -> "a"
      [] c = "B" -> "b"
      [] OTHER -> c

\* a faulty variant: the name is bound as it was given
KeepCase(s) == s

\* String.prototype.toLowerCase
toLowerCase(s) == [i \in 1..Len(s) |-> LowerChar(s[i])]

\* a faulty variant: the term goes into the pattern as it is
KeepTerm(s) == s

RECURSIVE EscapeTerm(_)
\* searchTerm.replace(/([%_@])/g, "@$1")
EscapeTerm(s) ==
    IF s = <<>> THEN <<>>
    ELSE IF Head(s) \in {"%", "_", "@"}
         THEN <<"@", Head(s)>> \o EscapeTerm(Tail(s))
         ELSE <<Head(s)>> \o EscapeTerm(Tail(s))

RECURSIVE Like(_, _)
\* text LIKE pattern ESCAPE '@' as sqlite evaluates it: % is any run, _ is any
\* one character, @ makes the next character literal, letters compare without
\* case
Like(p, s) ==
    IF p = <<>> THEN s = <<>>
    ELSE IF Head(p) = "%"
         THEN Like(Tail(p), s) \/ (s # <<>> /\ Like(p, Tail(s)))
    ELSE IF Head(p) = "_"
         THEN s # <<>> /\ Like(Tail(p), Tail(s))
    ELSE IF Head(p) = "@"
         THEN /\ Len(p) >= 2
              /\ s # <<>>
              /\ LowerChar(p[2]) = LowerChar(Head(s))
              /\ Like(Tail(Tail(p)), Tail(s))
    ELSE /\ s # <<>>
         /\ LowerChar(Head(p)) = LowerChar(Head(s))
         /\ Like(Tail(p), Tail(s))

(***************************************************************************)
(* JavaScript objects are functions from property names to values.         *)
(***************************************************************************)
Prop(o, k) == IF k \in DOMAIN o THEN o[k] ELSE undefined

\* if (v) for a number or undefined
Truthy(v) == v # undefined /\ v # 0

\* The properties index() copies into the stored payload.
ClonedKeys(msg) == DOMAIN msg \ {"id", "previews", "type", "time"}

\* Object.keys(msg).reduce(...) of index(): msg without id, previews, type, time
clonedMsg(msg) == [k \in ClonedKeys(msg) |-> msg[k]]

\* JSON.stringify: the text is modelled as the set of its key/value members
JSONstringify(o) == {<<k, o[k]>> : k \in DOMAIN o}

\* JSON.parse
JSONparse(t) == [k \in {m[1] : m \in t} |-> (CHOOSE m \in t : m[1] = k)[2]]

\* json_extract(msg, "$.text"): the member or NULL
JsonText(t) == IF \E m \in t : m[1] = "text"
               THEN <<TRUE, (CHOOSE m \in t : m[1] = "text")[2]>>
               ELSE <<FALSE, <<>>>>

\* new Msg(attr): the message object carries the attributes it is given
Msg(attr) == [k \in DOMAIN attr |-> attr[k]]

\* o with property k set to v
Assign(o, k, v) == [x \in DOMAIN o \cup {k} |-> IF x = k THEN v ELSE o[x]]

(***************************************************************************)
(* The database file: tables, indexes, the options rows and the messages   *)
(* rows (in rowid order).  A row of messages is the object node-sqlite3    *)
(* hands to a callback for SELECT rowid, msg, type, time, network, channel.*)
(***************************************************************************)
\* the four statements of schema, in order
schema == <<"options", "messages", "network_channel", "time">>

EmptyFile == [objects |-> {}, options |-> <<>>, messages |-> <<>>]

HasSchema(f) == Range(schema) \subseteq f.objects

\* sqlite gives a new row the largest rowid in the table plus one
NextRowid(rows) ==
    IF rows = <<>> THEN 1
    ELSE 1 + (CHOOSE m \in {r.rowid : r \in Range(rows)} :
                 \A r \in Range(rows) : r.rowid <= m)

\* INSERT INTO messages(network, channel, time, type, msg) VALUES(?, ?, ?, ?, ?)
InsertRow(rows, a) ==
    Append(rows, [rowid |-> NextRowid(rows), network |-> a.network,
                  channel |-> a.channel, time |-> a.time, type |-> a.type,
                  msg |-> a.msg])

\* WHERE network = ? AND channel = ?
InChannel(r, a) == r.network = a.network /\ r.channel = a.channel

\* a faulty variant: a DELETE that forgets the channel
DeleteRowsOfNetwork(rows, a) == SelectSeq(rows, LAMBDA r : r.network # a.network)

\* DELETE FROM messages WHERE network = ? AND channel = ?
DeleteRows(rows, a) == SelectSeq(rows, LAMBDA r : ~InChannel(r, a))

\* comparisons against a bound parameter; NULL compares as unknown
SqlEq(x, p) == p # undefined /\ x = p
SqlLt(x, p) == p # undefined /\ x < p

\* ORDER BY time DESC, rowid DESC
TimeRowidDesc(a, b) == a.time > b.time \/ (a.time = b.time /\ a.rowid > b.rowid)

\* the WHERE clause search() builds
SearchWhere(r, a) ==
    /\ r.type = "message"
    /\ JsonText(r.msg)[1]
    /\ Like(a.pattern, JsonText(r.msg)[2])
    /\ (a.byNetwork => r.network = a.network)
    /\ (a.byChannel => r.channel = a.channel)
    /\ (a.byCursor =>
           \/ (SqlEq(r.time, a.lastTime) /\ SqlLt(r.rowid, a.lastId))
           \/ SqlLt(r.time, a.lastTime))

\* the rows the statement of search() yields
SearchRows(rows, a) ==
    Limit(SortSeq(SelectSeq(rows, LAMBDA r : SearchWhere(r, a)), TimeRowidDesc),
          a.limit)

RECURSIVE TimeAscOrders(_)
\* a faulty variant: ORDER BY time ASC
TimeAscOrders(S) ==
    IF S = {} THEN {<<>>}
    ELSE LET low == {r \in S : \A q \in S : r.time <= q.time}
         IN  UNION {{<<r>> \o o : o \in TimeAscOrders(S \ {r})} : r \in low}

RECURSIVE TimeDescOrders(_)
\* ORDER BY time DESC: every order of the set S of rows with times descending
\* (sqlite leaves the order of rows with equal times open)
TimeDescOrders(S) ==
    IF S = {} THEN {<<>>}
    ELSE LET top == {r \in S : \A q \in S : q.time <= r.time}
         IN  UNION {{<<r>> \o o : o \in TimeDescOrders(S \ {r})} : r \in top}

\* the results the statement of getMessages() may yield: rows msg, type, time
SelectRows(rows, a) ==
    {Limit([i \in DOMAIN o |-> [msg |-> o[i].msg, type |-> o[i].type,
                                time |-> o[i].time]], a.limit) :
        o \in TimeDescOrders({r \in Range(rows) : InChannel(r, a)})}

\* parseSearchRowsToMessages
parseSearchRowsToMessages(rows) ==
    [i \in DOMAIN rows |->
        LET m0 == JSONparse(rows[i].msg)
            m1 == Assign(m0, "time", rows[i].time)
            m2 == Assign(m1, "type", rows[i].type)
            m3 == Assign(m2, "networkUuid", rows[i].network)
            m4 == Assign(m3, "channelName", rows[i].channel)
            m5 == Assign(m4, "id", Prop(rows[i], "id"))
        IN  Msg(m5)]

\* the response search() resolves with (lines 248-256)
SearchResponse(query, rows) ==
    LET results == Reverse(parseSearchRowsToMessages(rows))
    IN  [searchTerm |-> query.searchTerm,
         target |-> query.channelName,
         networkUuid |-> query.networkUuid,
         lastTime |-> IF results # <<>> THEN Prop(results[1], "time") ELSE -1,
         lastId |-> IF results # <<>> THEN Prop(results[1], "rowid") ELSE -1,
         results |-> results]

\* a faulty variant: getMessages without rows.reverse()
LoadedMessagesUnreversed(rows, firstId) ==
    [i \in DOMAIN rows |->
        Assign(Msg(Assign(Assign(JSONparse(rows[i].msg), "time", rows[i].time),
                          "type", rows[i].type)),
               "id", firstId + i - 1)]

\* a faulty variant: getMessages giving every message of a result the same id
LoadedMessagesOneId(rows, firstId) ==
    LET rev == Reverse(rows)
    IN  [i \in DOMAIN rev |->
            Assign(Msg(Assign(Assign(JSONparse(rev[i].msg), "time", rev[i].time),
                              "type", rev[i].type)),
                   "id", firstId)]

\* rows.reverse().map(...) of getMessages: ids are client.idMsg++ in order
LoadedMessages(rows, firstId) ==
    LET rev == Reverse(rows)
    IN  [i \in DOMAIN rev |->
            Assign(Msg(Assign(Assign(JSONparse(rev[i].msg), "time", rev[i].time),
                              "type", rev[i].type)),
                   "id", firstId + i - 1)]

(***************************************************************************)
(* node-sqlite3 handles.  A handle queues the statements scheduled on it   *)
(* in submission order; a statement scheduled inside serialize() is        *)
(* exclusive: it runs alone, after everything scheduled before it.         *)
(***************************************************************************)
\* call is the call that scheduled the statement, kept for reference
Stmt(kind, exclusive, cb, args, call) ==
    [kind |-> kind, exclusive |-> exclusive, cb |-> cb, args |-> args, call |-> call]

NoArgs == [none |-> TRUE]

CallerKinds == {"insert", "delete", "select", "search"}

\* a faulty variant: enable() without the serialize() around its statements
NewDatabaseUnserialized ==
    [status |-> "opening",
     queue |-> [i \in 1..Len(schema) |-> Stmt("create", FALSE, "none", [object |-> schema[i]], NoArgs)]
               \o <<Stmt("getVersion", FALSE, "version", NoArgs, NoArgs)>>]

\* new sqlite3.Database(path) followed by the serialize() block of enable()
NewDatabase ==
    [status |-> "opening",
     queue |-> [i \in 1..Len(schema) |-> Stmt("create", TRUE, "none", [object |-> schema[i]], NoArgs)]
               \o <<Stmt("getVersion", TRUE, "version", NoArgs, NoArgs)>>]

\* a faulty variant: the statement is put ahead of those already waiting
ScheduleFirst(hs, h, stmt) == [hs EXCEPT ![h].queue = <<stmt>> \o @]

\* Database::Schedule: the statement joins the handle's queue
Schedule(hs, h, stmt) == [hs EXCEPT ![h].queue = Append(@, stmt)]

\* statements of index/deleteChannel/getMessages/search waiting on handle h
Waiting(h) == Len(SelectSeq(handles[h].queue, LAMBDA st : st.kind \in CallerKinds))

\* Database::Process: the statements of handle h that may run next.  The
\* head of the queue may; behind a head that is not exclusive, so may the
\* statements up to the first exclusive one (they run in parallel).
Runnable(h) ==
    LET q == handles[h].queue
    IN  {i \in DOMAIN q : \A j \in 1..(i - 1) : ~q[j].exclusive /\ ~q[i].exclusive}
        \cup (IF q # <<>> THEN {1} ELSE {})

RemoveAt(q, i) == SubSeq(q, 1, i - 1) \o SubSeq(q, i + 1, Len(q))

(***************************************************************************)
(* The caller that pages through a search.                                 *)
(***************************************************************************)
NoPager == [state |-> "idle", query |-> NoArgs, lastTime |-> undefined,
            lastId |-> undefined, seen |-> <<>>, pages |-> 0]

(***************************************************************************)
(* MessageStorage                                                          *)
(***************************************************************************)
\* a faulty variant: an enable() that sets the flag before the directory step
enableFlagFirst(mkdirOk) ==
    /\ Len(handles) < MaxHandles
    /\ isEnabled' = TRUE
    /\ IF ~mkdirOk \/ ~sqlite3
       THEN /\ last' = [op |-> "enable", threw |-> mkdirOk, opened |-> FALSE]
            /\ UNCHANGED <<database, handles>>
       ELSE /\ handles' = Append(handles, NewDatabase)
            /\ database' = Len(handles) + 1
            /\ last' = [op |-> "enable", threw |-> FALSE, opened |-> TRUE]
    /\ UNCHANGED <<sqlite3, maxHistory, file, idMsg, pager>>

\* enable(); mkdirOk is whether fs.mkdirSync succeeded
enable(mkdirOk) ==
    /\ Len(handles) < MaxHandles
    /\ IF ~mkdirOk
       THEN /\ last' = [op |-> "enable", threw |-> FALSE, opened |-> FALSE]
            /\ UNCHANGED <<isEnabled, database, handles>>
       ELSE IF ~sqlite3
       THEN \* new sqlite3.Database throws: sqlite3 is undefined
            /\ isEnabled' = TRUE
            /\ last' = [op |-> "enable", threw |-> TRUE, opened |-> FALSE]
            /\ UNCHANGED <<database, handles>>
       ELSE /\ isEnabled' = TRUE
            /\ handles' = Append(handles, NewDatabase)
            /\ database' = Len(handles) + 1
            /\ last' = [op |-> "enable", threw |-> FALSE, opened |-> TRUE]
    /\ UNCHANGED <<sqlite3, maxHistory, file, idMsg, pager>>

\* a faulty variant: a close() that leaves the flag set
closeKeepsFlag(hasCallback) ==
    /\ isEnabled
    /\ database # 0
    /\ handles' = Schedule(handles, database,
                           Stmt("close", TRUE, "close", [hasCallback |-> hasCallback], NoArgs))
    /\ last' = [op |-> "close", wasEnabled |-> TRUE, threw |-> FALSE,
                hasCallback |-> hasCallback, called |-> FALSE]
    /\ Len(handles[database].queue) < Len(schema) + 3
    /\ UNCHANGED <<sqlite3, maxHistory, isEnabled, database, file, idMsg, pager>>

\* close(callback); hasCallback is whether a callback was passed
close(hasCallback) ==
    /\ IF ~isEnabled
       THEN /\ last' = [op |-> "close", wasEnabled |-> FALSE, threw |-> FALSE,
                        hasCallback |-> hasCallback, called |-> FALSE]
            /\ UNCHANGED <<isEnabled, handles>>
       ELSE /\ isEnabled' = FALSE
            /\ IF database = 0
               THEN /\ last' = [op |-> "close", wasEnabled |-> TRUE, threw |-> TRUE,
                                hasCallback |-> hasCallback, called |-> FALSE]
                    /\ UNCHANGED handles
               ELSE /\ handles' = Schedule(handles, database,
                                      Stmt("close", TRUE, "close",
                                           [hasCallback |-> hasCallback], NoArgs))
                    /\ last' = [op |-> "close", wasEnabled |-> TRUE, threw |-> FALSE,
                                hasCallback |-> hasCallback, called |-> FALSE]
    /\ UNCHANGED <<sqlite3, maxHistory, database, file, idMsg, pager>>

\* a call of index, deleteChannel, getMessages or search that returns at its
\* first line because the store is not enabled
Disabled(op, settled) ==
    /\ ~isEnabled
    /\ last' = [op |-> op, wasEnabled |-> FALSE, threw |-> FALSE,
                settled |-> settled, result |-> <<>>]
    /\ UNCHANGED <<sqlite3, maxHistory, isEnabled, database, handles, file, idMsg, pager>>

\* the calls that reach this.database inside the executor of the promise
\* they return (lines 175-176, 243-244)
InExecutor(op) == op \in {"getMessages", "search"}

\* a call on an enabled store: it schedules stmt on this.database. When
\* this.database was never assigned the TypeError is thrown to the caller by
\* index and deleteChannel (lines 135, 152), and caught by the executor of
\* the promise in getMessages and search, which return the promise rejected
Submit(op, stmt) ==
    /\ isEnabled
    /\ IF database = 0
       THEN /\ last' = [op |-> op, wasEnabled |-> TRUE,
                        threw |-> ~InExecutor(op),
                        settled |-> IF InExecutor(op) THEN "rejected" ELSE "none",
                        result |-> <<>>]
            /\ UNCHANGED handles
       ELSE /\ handles' = Schedule(handles, database, stmt)
            /\ last' = [op |-> op, wasEnabled |-> TRUE, threw |-> FALSE,
                        settled |-> "pending", result |-> <<>>]
    /\ UNCHANGED <<sqlite3, maxHistory, isEnabled, database, file, idMsg>>

\* index(network, channel, msg)
index(network, channel, msg) ==
    IF ~isEnabled THEN Disabled("index", "none")
    ELSE
       /\ Submit("index",
              Stmt("insert", TRUE, "none",
                   [network |-> network.uuid,
                    channel |-> toLowerCase(channel.name),
                    time |-> msg.time,
                    type |-> msg.type,
                    msg |-> JSONstringify(clonedMsg(msg))],
                   [network |-> network, channel |-> channel, msg |-> msg]))
       /\ UNCHANGED pager

\* deleteChannel(network, channel)
deleteChannel(network, channel) ==
    IF ~isEnabled THEN Disabled("deleteChannel", "none")
    ELSE
       /\ Submit("deleteChannel",
              Stmt("delete", TRUE, "none",
                   [network |-> network.uuid,
                    channel |-> toLowerCase(channel.name)],
                   [network |-> network, channel |-> channel]))
       /\ UNCHANGED pager

\* getMessages(network, channel)
getMessages(network, channel) ==
    IF ~isEnabled \/ maxHistory = 0
    THEN /\ last' = [op |-> "getMessages", wasEnabled |-> isEnabled, threw |-> FALSE,
                     settled |-> "resolved", result |-> <<>>]
         /\ UNCHANGED <<sqlite3, maxHistory, isEnabled, database, handles, file, idMsg, pager>>
    ELSE /\ idMsg < MaxId
         /\ Submit("getMessages",
                Stmt("select", TRUE, "promise",
                     [network |-> network.uuid,
                      channel |-> toLowerCase(channel.name),
                      limit |-> IF maxHistory < 0 THEN UnlimitedHistory ELSE maxHistory],
                     [network |-> network, channel |-> channel]))
         /\ UNCHANGED pager

\* the statement search(query) builds (lines 208-241)
SearchStmt(query, cb) ==
    Stmt("search", FALSE, cb,
         [query |-> query,
          pattern |-> <<"%">> \o EscapeTerm(query.searchTerm) \o <<"%">>,
          byNetwork |-> query.networkUuid # "",
          network |-> query.networkUuid,
          byChannel |-> query.channelName # <<>>,
          channel |-> toLowerCase(query.channelName),
          byCursor |-> Truthy(query.lastTime),
          lastTime |-> query.lastTime,
          lastId |-> query.lastId,
          limit |-> maxResults],
         [query |-> query])

\* search(query)
search(query) ==
    IF ~isEnabled THEN Disabled("search", "resolved")
    ELSE
       /\ Submit("search", SearchStmt(query, "promise"))
       /\ UNCHANGED pager

\* canProvideMessages(): a read of the flag, it changes nothing
canProvideMessages == isEnabled

(***************************************************************************)
(* The steps of a handle: the open completes, a queued statement runs and  *)
(* its callback is called.                                                 *)
(***************************************************************************)
\* the handle and position of a statement of the given kind that may run now
CanRun(h, i, kind) ==
    /\ h \in DOMAIN handles
    /\ handles[h].status = "open"
    /\ i \in Runnable(h)
    /\ handles[h].queue[i].kind = kind

Dequeue(h, i) == [handles EXCEPT ![h].queue = RemoveAt(@, i)]

\* a statement without a callback ran: nothing is reported to the caller
\* unless it failed (node-sqlite3 then emits an error event)
Ran(st, err, changes) ==
    [op |-> "ran", kind |-> st.kind, call |-> st.call, err |-> err, changes |-> changes]

\* the database file is opened
Open(h) ==
    /\ h \in DOMAIN handles
    /\ handles[h].status = "opening"
    /\ handles' = [handles EXCEPT ![h].status = "open"]
    /\ last' = [op |-> "opened"]
    /\ UNCHANGED <<sqlite3, maxHistory, isEnabled, database, file, idMsg, pager>>

\* CREATE TABLE / CREATE INDEX IF NOT EXISTS (line 53)
ExecCreate(h) ==
    /\ CanRun(h, 1, "create")
    /\ LET st == handles[h].queue[1]
       IN  /\ file' = [file EXCEPT !.objects = @ \cup {st.args.object}]
           /\ last' = Ran(st, FALSE, 0)
    /\ handles' = Dequeue(h, 1)
    /\ UNCHANGED <<sqlite3, maxHistory, isEnabled, database, idMsg, pager>>

Digit == <<"0", "1", "2", "3", "4", "5", "6", "7", "8", "9">>

RECURSIVE NumberToText(_)
\* a number bound to a TEXT column is stored as its decimal text
NumberToText(n) ==
    IF n < 10 THEN <<Digit[n + 1]>>
    ELSE NumberToText(n \div 10) \o <<Digit[(n % 10) + 1]>>

DigitValue(c) == (CHOOSE d \in DOMAIN Digit : Digit[d] = c) - 1

RECURSIVE parseInt(_)
\* parseInt(text, 10) of a decimal text
parseInt(t) ==
    IF Len(t) = 1 THEN DigitValue(t[1])
    ELSE 10 * parseInt(SubSeq(t, 1, Len(t) - 1)) + DigitValue(t[Len(t)])

\* a faulty variant: a callback that inserts the version whatever row it got
VersionFollowUpInsertAlways(row) ==
    <<Stmt("insertVersion", TRUE, "none", [value |-> currentSchemaVersion], NoArgs)>>

\* a faulty variant: a callback that also rewrites a version above the current
VersionFollowUpRewrite(row) ==
    IF row = <<>>
    THEN <<Stmt("insertVersion", TRUE, "none", [value |-> currentSchemaVersion], NoArgs)>>
    ELSE <<Stmt("updateVersion", TRUE, "none", [value |-> currentSchemaVersion], NoArgs)>>

\* what the callback of the schema_version query schedules on this.database
\* (lines 57-96): the insert, the update, or nothing
VersionFollowUp(row) ==
    IF row = <<>>
    THEN <<Stmt("insertVersion", TRUE, "none", [value |-> currentSchemaVersion], NoArgs)>>
    ELSE LET storedSchemaVersion == parseInt(row[1])
         IN  IF storedSchemaVersion = currentSchemaVersion THEN <<>>
             ELSE IF storedSchemaVersion > currentSchemaVersion THEN <<>>
             ELSE <<Stmt("updateVersion", TRUE, "none", [value |-> currentSchemaVersion],
                         NoArgs)>>

\* SELECT value FROM options WHERE name = 'schema_version', and its callback
ExecGetVersion(h) ==
    /\ CanRun(h, 1, "getVersion")
    /\ LET st == handles[h].queue[1]
           err == "options" \notin file.objects
           row == IF file.options = <<>> THEN <<>> ELSE <<file.options[1]>>
           next == IF err THEN <<>> ELSE VersionFollowUp(row)
           popped == Dequeue(h, 1)
       IN  /\ handles' = [popped EXCEPT ![database].queue = @ \o next]
           /\ last' = [op |-> "version", err |-> err,
                       logged |-> err \/ (row # <<>> /\ parseInt(row[1]) > currentSchemaVersion)]
    /\ UNCHANGED <<sqlite3, maxHistory, isEnabled, database, file, idMsg, pager>>

\* INSERT INTO options (name, value) VALUES ('schema_version', ?); name is UNIQUE
ExecInsertVersion(h) ==
    /\ CanRun(h, 1, "insertVersion")
    /\ LET st == handles[h].queue[1]
           err == "options" \notin file.objects \/ file.options # <<>>
       IN  /\ file' = IF err THEN file
                      ELSE [file EXCEPT !.options = Append(@, NumberToText(st.args.value))]
           /\ last' = Ran(st, err, IF err THEN 0 ELSE 1)
    /\ handles' = Dequeue(h, 1)
    /\ UNCHANGED <<sqlite3, maxHistory, isEnabled, database, idMsg, pager>>

\* UPDATE options SET value = ? WHERE name = 'schema_version'
ExecUpdateVersion(h) ==
    /\ CanRun(h, 1, "updateVersion")
    /\ LET st == handles[h].queue[1]
           err == "options" \notin file.objects
       IN  /\ file' = IF err THEN file
                      ELSE [file EXCEPT !.options =
                                [i \in DOMAIN @ |-> NumberToText(st.args.value)]]
           /\ last' = Ran(st, err, IF err THEN 0 ELSE Len(file.options))
    /\ handles' = Dequeue(h, 1)
    /\ UNCHANGED <<sqlite3, maxHistory, isEnabled, database, idMsg, pager>>

\* the INSERT of index() runs
ExecInsert(h) ==
    /\ CanRun(h, 1, "insert")
    /\ LET st == handles[h].queue[1]
           err == "messages" \notin file.objects
       IN  /\ file' = IF err THEN file
                      ELSE [file EXCEPT !.messages = InsertRow(@, st.args)]
           /\ last' = Ran(st, err, IF err THEN 0 ELSE 1)
    /\ handles' = Dequeue(h, 1)
    /\ UNCHANGED <<sqlite3, maxHistory, isEnabled, database, idMsg, pager>>

\* the DELETE of deleteChannel() runs
ExecDelete(h) ==
    /\ CanRun(h, 1, "delete")
    /\ LET st == handles[h].queue[1]
           err == "messages" \notin file.objects
       IN  /\ file' = IF err THEN file
                      ELSE [file EXCEPT !.messages = DeleteRows(@, st.args)]
           /\ last' = Ran(st, err, IF err THEN 0
                                   ELSE Len(file.messages) - Len(DeleteRows(file.messages, st.args)))
    /\ handles' = Dequeue(h, 1)
    /\ UNCHANGED <<sqlite3, maxHistory, isEnabled, database, idMsg, pager>>

\* the SELECT of getMessages() runs and its callback settles the promise
\* (lines 180-197)
ExecSelect(h) ==
    /\ CanRun(h, 1, "select")
    /\ LET st == handles[h].queue[1]
       IN  IF "messages" \notin file.objects
           THEN /\ last' = [op |-> "loaded", settled |-> "rejected", result |-> <<>>,
                            args |-> st.args, call |-> st.call]
                /\ UNCHANGED idMsg
           ELSE \E rows \in SelectRows(file.messages, st.args) :
                /\ last' = [op |-> "loaded", settled |-> "resolved",
                            result |-> LoadedMessages(rows, idMsg),
                            args |-> st.args, call |-> st.call]
                /\ idMsg' = idMsg + Len(rows)
    /\ handles' = Dequeue(h, 1)
    /\ UNCHANGED <<sqlite3, maxHistory, isEnabled, database, file, pager>>

\* what the paging caller does with a page
PagerTakes(rows, response) ==
    [pager EXCEPT
        !.state = IF response.lastTime = -1 /\ response.lastId = -1
                  THEN "done" ELSE "got",
        !.lastTime = response.lastTime,
        !.lastId = response.lastId,
        !.seen = @ \o [i \in DOMAIN rows |-> Reverse(rows)[i].rowid],
        !.pages = @ + 1]

\* the SELECT of search() runs and its callback settles the promise
\* (lines 244-259)
ExecSearch(h, i) ==
    /\ CanRun(h, i, "search")
    /\ LET st == handles[h].queue[i]
       IN  IF "messages" \notin file.objects
           THEN /\ last' = [op |-> "found", settled |-> "rejected",
                            args |-> st.args, call |-> st.call]
                /\ pager' = IF st.cb = "pager" THEN [pager EXCEPT !.state = "failed"]
                            ELSE pager
           ELSE LET rows == SearchRows(file.messages, st.args)
                    response == SearchResponse(st.args.query, rows)
                IN  /\ last' = [op |-> "found", settled |-> "resolved",
                                response |-> response, rows |-> rows,
                                args |-> st.args, call |-> st.call]
                    /\ pager' = IF st.cb = "pager" THEN PagerTakes(rows, response)
                                ELSE pager
    /\ handles' = Dequeue(h, i)
    /\ UNCHANGED <<sqlite3, maxHistory, isEnabled, database, file, idMsg>>

\* a faulty variant: a failed SELECT whose callback resolves with no rows
FailSelectResolves(h) ==
    /\ CanRun(h, 1, "select")
    /\ LET st == handles[h].queue[1]
       IN  last' = [op |-> "loaded", settled |-> "resolved", result |-> <<>>,
                    args |-> st.args, call |-> st.call, failed |-> TRUE]
    /\ handles' = Dequeue(h, 1)
    /\ UNCHANGED <<sqlite3, maxHistory, isEnabled, database, file, idMsg, pager>>

\* the SELECT of getMessages() fails in the engine (the file cannot be
\* read, the database is busy): its callback gets the error and rejects
\* (lines 181-183)
FailSelect(h) ==
    /\ CanRun(h, 1, "select")
    /\ LET st == handles[h].queue[1]
       IN  last' = [op |-> "loaded", settled |-> "rejected", result |-> <<>>,
                    args |-> st.args, call |-> st.call, failed |-> TRUE]
    /\ handles' = Dequeue(h, 1)
    /\ UNCHANGED <<sqlite3, maxHistory, isEnabled, database, file, idMsg, pager>>

\* the SELECT of search() fails in the engine: its callback gets the error
\* and rejects (lines 245-246)
FailSearch(h, i) ==
    /\ CanRun(h, i, "search")
    /\ LET st == handles[h].queue[i]
       IN  /\ last' = [op |-> "found", settled |-> "rejected",
                        args |-> st.args, call |-> st.call, failed |-> TRUE]
           /\ pager' = IF st.cb = "pager" THEN [pager EXCEPT !.state = "failed"]
                       ELSE pager
    /\ handles' = Dequeue(h, i)
    /\ UNCHANGED <<sqlite3, maxHistory, isEnabled, database, file, idMsg>>

\* the close of the handle runs and its callback is called (lines 108-116);
\* err is whether sqlite3_close failed
ExecClose(h, err) ==
    /\ CanRun(h, 1, "close")
    /\ LET st == handles[h].queue[1]
       IN  /\ handles' = [Dequeue(h, 1) EXCEPT ![h].status = IF err THEN @ ELSE "closed"]
           /\ last' = [op |-> "closed", handle |-> h, err |-> err, logged |-> err,
                       hasCallback |-> st.args.hasCallback,
                       called |-> st.args.hasCallback, passed |-> err]
    /\ UNCHANGED <<sqlite3, maxHistory, isEnabled, database, file, idMsg, pager>>

\* a statement left on a closed handle fails with "Database is closed"
Drain(h) ==
    /\ h \in DOMAIN handles
    /\ handles[h].status = "closed"
    /\ handles[h].queue # <<>>
    /\ last' = Ran(handles[h].queue[1], TRUE, 0)
    /\ handles' = Dequeue(h, 1)
    /\ UNCHANGED <<sqlite3, maxHistory, isEnabled, database, file, idMsg, pager>>

(***************************************************************************)
(* Callers.                                                                *)
(***************************************************************************)
Network(uuid) == [uuid |-> uuid]
Chan(name) == [name |-> name]
\* a message as the client hands it to index(); time is msg.time.getTime()
Message(time, type, text) ==
    [id |-> 0, previews |-> <<>>, type |-> type, time |-> time, text |-> text]

Query(term, networkUuid, channelName, lastTime, lastId) ==
    [searchTerm |-> term, networkUuid |-> networkUuid, channelName |-> channelName,
     lastTime |-> lastTime, lastId |-> lastId]

\* whether a call may add a statement while at most n statements of callers
\* wait on this.database
Room(n) == (isEnabled /\ database # 0) => Waiting(database) < n

\* inserts waiting on this.database
Inserts ==
    IF database = 0 THEN 0
    ELSE Len(SelectSeq(handles[database].queue, LAMBDA st : st.kind = "insert"))

\* whether one more row keeps the table within n rows and the rowids bounded
RoomFor(n) ==
    /\ Len(file.messages) + Inserts < n
    /\ NextRowid(file.messages) + Inserts <= MaxRowid

\* the first page of a search
PagerFirst(query) ==
    /\ pager.state = "idle"
    /\ Submit("search", SearchStmt(query, "pager"))
    /\ pager' = [NoPager EXCEPT !.state = "waiting", !.query = query]

\* the next page: the same query with the cursor of the page before
PagerNext ==
    /\ pager.state = "got"
    /\ Submit("search",
           SearchStmt([pager.query EXCEPT !.lastTime = pager.lastTime,
                                          !.lastId = pager.lastId], "pager"))
    /\ pager' = [pager EXCEPT !.state = "waiting"]

(***************************************************************************)
(* Spec: the life of a store, from its construction.                       *)
(***************************************************************************)
\* a file left by an earlier run whose options table holds version v
StoredFile(v) ==
    [objects |-> Range(schema), options |-> <<NumberToText(v)>>, messages |-> <<>>]

InitFiles == {EmptyFile, StoredFile(currentSchemaVersion - 1),
              StoredFile(currentSchemaVersion), StoredFile(currentSchemaVersion + 1)}

LifeNetwork == Network("n1")
LifeChannel == Chan(<<"#", "A">>)
LifeMessage == Message(1, "message", <<"a">>)
LifeQuery == Query(<<"a">>, "", <<>>, undefined, undefined)

\* the longest queue of a handle: the schema, the version query and its
\* follow-up, a close, and the waiting statements of callers
QueueCap == Len(schema) + 3 + MaxQueue

Init ==
    /\ sqlite3 \in BOOLEAN
    /\ maxHistory = -1
    /\ isEnabled = FALSE
    /\ database = 0
    /\ handles = <<>>
    /\ file = EmptyFile
    /\ idMsg = 1
    /\ last = [op |-> "new"]
    /\ pager = NoPager

Step ==
    \E h \in 1..MaxHandles :
        \/ Open(h)
        \/ ExecCreate(h)
        \/ ExecGetVersion(h)
        \/ ExecInsertVersion(h)
        \/ ExecInsert(h)
        \/ ExecDelete(h)
        \/ ExecSelect(h)
        \/ \E i \in 1..QueueCap : ExecSearch(h, i)
        \/ \E err \in BOOLEAN : ExecClose(h, err)
        \/ Drain(h)

Next ==
    \/ \E mkdirOk \in BOOLEAN : enable(mkdirOk)
    \/ \E hasCallback \in BOOLEAN : close(hasCallback)
    \/ (Room(MaxQueue) /\ RoomFor(1) /\ index(LifeNetwork, LifeChannel, LifeMessage))
    \/ (Room(MaxQueue) /\ deleteChannel(LifeNetwork, LifeChannel))
    \/ (Room(MaxQueue) /\ getMessages(LifeNetwork, LifeChannel))
    \/ (Room(MaxQueue) /\ search(LifeQuery))
    \/ Step

Spec == Init /\ [][Next]_vars

(***************************************************************************)
(* SpecSchema: a data file as an earlier run left it (none, or holding an   *)
(* older, the current or a newer schema version) is opened, closed and      *)
(* opened again, each call of enable() and close() made once the handles    *)
(* have finished what was scheduled on them.                                *)
(***************************************************************************)
\* every handle has opened and run all that was scheduled on it
Quiet ==
    \A h \in DOMAIN handles :
        handles[h].status # "opening" /\ handles[h].queue = <<>>

InitSchema ==
    /\ sqlite3 = TRUE
    /\ maxHistory = -1
    /\ isEnabled = FALSE
    /\ database = 0
    /\ handles = <<>>
    /\ file \in InitFiles
    /\ idMsg = 1
    /\ last = [op |-> "new"]
    /\ pager = NoPager

StepSchema ==
    \E h \in 1..MaxHandles :
        \/ Open(h)
        \/ ExecCreate(h)
        \/ ExecGetVersion(h)
        \/ ExecInsertVersion(h)
        \/ ExecUpdateVersion(h)
        \/ ExecInsert(h)
        \/ ExecSelect(h)
        \/ \E i \in 1..QueueCap : ExecSearch(h, i)
        \/ \E err \in BOOLEAN : ExecClose(h, err)

NextSchema ==
    \/ \E mkdirOk \in BOOLEAN : (Quiet /\ enable(mkdirOk))
    \/ \E hasCallback \in BOOLEAN : (Quiet /\ close(hasCallback))
    \/ (Room(MaxQueue) /\ RoomFor(1) /\ index(LifeNetwork, LifeChannel, LifeMessage))
    \/ (Room(MaxQueue) /\ getMessages(LifeNetwork, LifeChannel))
    \/ (Room(MaxQueue) /\ search(LifeQuery))
    \/ StepSchema

SpecSchema == InitSchema /\ [][NextSchema]_vars

(***************************************************************************)
(* SpecData: an enabled store whose handle is open and whose schema is in  *)
(* place; messages are indexed, loaded and deleted by channel.             *)
(***************************************************************************)
Ready(rows) ==
    /\ sqlite3 = TRUE
    /\ isEnabled = TRUE
    /\ database = 1
    /\ handles = <<[status |-> "open", queue |-> <<>>]>>
    /\ file = [StoredFile(currentSchemaVersion) EXCEPT !.messages = rows]
    /\ idMsg = 1
    /\ last = [op |-> "version", err |-> FALSE, logged |-> FALSE]
    /\ pager = NoPager

InitData ==
    /\ maxHistory \in {-1, 0, 1, 2}
    /\ Ready(<<>>)

\* what is indexed: three times in one channel (written #A), another
\* channel, another network
DataWrites ==
    {<<Network("n1"), Chan(<<"#", "A">>), Message(1, "message", <<"a">>)>>,
     <<Network("n1"), Chan(<<"#", "A">>), Message(2, "message", <<"a">>)>>,
     <<Network("n1"), Chan(<<"#", "A">>), Message(3, "message", <<"a">>)>>,
     <<Network("n1"), Chan(<<"#", "b">>), Message(1, "message", <<"a">>)>>,
     <<Network("n2"), Chan(<<"#", "a">>), Message(2, "message", <<"a">>)>>}

DataTargets ==
    {<<Network("n1"), Chan(<<"#", "a">>)>>,
     <<Network("n1"), Chan(<<"#", "B">>)>>,
     <<Network("n2"), Chan(<<"#", "A">>)>>}

NextData ==
    \/ \E w \in DataWrites :
          (Room(MaxQueue) /\ RoomFor(MaxRows) /\ index(w[1], w[2], w[3]))
    \/ \E t \in DataTargets : (Room(MaxQueue) /\ deleteChannel(t[1], t[2]))
    \/ \E t \in DataTargets : (Room(MaxQueue) /\ getMessages(t[1], t[2]))
    \/ ExecInsert(1)
    \/ ExecDelete(1)
    \/ ExecSelect(1)

SpecData == InitData /\ [][NextData]_vars

(***************************************************************************)
(* SpecScope: messages are indexed under channel names written in several  *)
(* casings on two networks, then loaded, searched and deleted under other  *)
(* casings.  Each message carries the network and the channel name it was  *)
(* indexed under as properties of its own (net, chan), which the store      *)
(* keeps in the payload like any other property.                           *)
(***************************************************************************)
Tagged(uuid, name) ==
    [id |-> 0, previews |-> <<>>, type |-> "message", time |-> 1, text |-> <<"a">>,
     net |-> uuid, chan |-> name]

ScopeNames == {<<"#", "A">>, <<"#", "a">>, <<"#", "b">>}

ScopeWrites ==
    {<<Network(n), Chan(c), Tagged(n, c)>> : n \in {"n1", "n2"}, c \in ScopeNames}

ScopeTargets ==
    {<<Network("n1"), Chan(<<"#", "a">>)>>,
     <<Network("n1"), Chan(<<"#", "B">>)>>,
     <<Network("n2"), Chan(<<"#", "A">>)>>}

ScopeQueries ==
    {Query(<<"a">>, "n1", <<"#", "A">>, undefined, undefined),
     Query(<<"a">>, "n2", <<>>, undefined, undefined),
     Query(<<"a">>, "", <<"#", "B">>, undefined, undefined)}

InitScope ==
    /\ maxHistory = -1
    /\ Ready(<<>>)

NextScope ==
    \/ \E w \in ScopeWrites :
          (Room(MaxQueue) /\ RoomFor(MaxRows) /\ index(w[1], w[2], w[3]))
    \/ \E t \in ScopeTargets : (Room(MaxQueue) /\ deleteChannel(t[1], t[2]))
    \/ \E t \in ScopeTargets : (Room(MaxQueue) /\ getMessages(t[1], t[2]))
    \/ \E q \in ScopeQueries : (Room(MaxQueue) /\ search(q))
    \/ ExecInsert(1)
    \/ ExecDelete(1)
    \/ ExecSelect(1)
    \/ \E i \in 1..QueueCap : ExecSearch(1, i)

SpecScope == InitScope /\ [][NextScope]_vars

(***************************************************************************)
(* SpecLike: one stored message is searched for with every term over an    *)
(* alphabet that holds the characters LIKE treats specially.               *)
(***************************************************************************)
Alphabet == {"a", "A", "%", "_", "@"}

\* the strings over Alphabet of at most n characters
Strings(n) == UNION {[1..k -> Alphabet] : k \in 0..n}

LikeRow(text) ==
    [rowid |-> 1, network |-> "n1", channel |-> <<"#", "a">>, time |-> 1,
     type |-> "message", msg |-> JSONstringify([text |-> text])]

InitLike ==
    /\ maxHistory = -1
    /\ \E text \in Strings(MaxText) : Ready(<<LikeRow(text)>>)

\* one search of each stored text with each term
NextLike ==
    \/ \E term \in Strings(MaxTerm) :
          (last.op # "found" /\ Quiet
             /\ search(Query(term, "", <<>>, undefined, undefined)))
    \/ ExecSearch(1, 1)

SpecLike == InitLike /\ [][NextLike]_vars

(***************************************************************************)
(* SpecOrder: calls follow each other without waiting for the statements   *)
(* of the calls before, so that several statements wait on the handle, and *)
(* the statements of getMessages and search may fail in the engine.        *)
(***************************************************************************)
OrderWrites ==
    {<<Network("n1"), Chan(<<"#", "A">>), Message(1, "message", <<"a">>)>>,
     <<Network("n1"), Chan(<<"#", "A">>), Message(2, "message", <<"a">>)>>,
     <<Network("n1"), Chan(<<"#", "b">>), Message(1, "message", <<"a">>)>>}

OrderTargets ==
    {<<Network("n1"), Chan(<<"#", "a">>)>>,
     <<Network("n1"), Chan(<<"#", "B">>)>>}

InitOrder ==
    /\ maxHistory \in {-1, 1}
    /\ Ready(<<>>)

NextOrder ==
    \/ \E w \in OrderWrites :
          (Room(MaxQueue + 1) /\ RoomFor(MaxRows) /\ index(w[1], w[2], w[3]))
    \/ \E t \in OrderTargets : (Room(MaxQueue + 1) /\ deleteChannel(t[1], t[2]))
    \/ \E t \in OrderTargets : (Room(MaxQueue + 1) /\ getMessages(t[1], t[2]))
    \/ (Room(MaxQueue + 1) /\ search(LifeQuery))
    \/ ExecInsert(1)
    \/ ExecDelete(1)
    \/ ExecSelect(1)
    \/ \E i \in 1..QueueCap : ExecSearch(1, i)
    \/ FailSelect(1)
    \/ \E i \in 1..QueueCap : FailSearch(1, i)

SpecOrder == InitOrder /\ [][NextOrder]_vars

(***************************************************************************)
(* SpecPage: a caller pages through a search of a stored table, small or   *)
(* larger than one page.                                                   *)
(***************************************************************************)
\* time of the j-th row of L under each pattern: rising, all equal, equal in
\* pairs, falling
PageTime(pattern, j, L) ==
    CASE pattern = 1 -> j
      [] pattern = 2 -> 5
      [] pattern = 3 -> (j + 1) \div 2
      [] OTHER -> L + 1 - j

\* the j-th row: with mix, every eleventh row is one the query does not match
\* (another network, another type, another text in turn)
PageRow(pattern, mix, j, L) ==
    LET odd == mix /\ j % 11 = 0
        k == (j \div 11) % 3
    IN  [rowid |-> j,
         network |-> IF odd /\ k = 1 THEN "n2" ELSE "n1",
         channel |-> <<"#", "a">>,
         time |-> PageTime(pattern, j, L),
         type |-> IF odd /\ k = 2 THEN "join" ELSE "message",
         msg |-> JSONstringify([text |-> IF odd /\ k = 0 THEN <<"b">> ELSE <<"a">>])]

PageRows(pattern, mix, L) == [j \in 1..L |-> PageRow(pattern, mix, j, L)]

PageSizes == (0..2) \cup ((maxResults - 1)..(maxResults + Extra))

PageQueries ==
    {Query(<<"a">>, "", <<>>, undefined, undefined),
     Query(<<"a">>, "n1", <<"#", "A">>, undefined, undefined)}

InitPage ==
    /\ maxHistory = -1
    /\ \E pattern \in 1..4, mix \in BOOLEAN, n \in PageSizes :
          Ready(PageRows(pattern, mix, IF mix THEN n + n \div 10 ELSE n))

NextPage ==
    \/ \E q \in PageQueries : (Room(MaxQueue) /\ PagerFirst(q))
    \/ (Room(MaxQueue) /\ PagerNext)
    \/ ExecSearch(1, 1)

SpecPage == InitPage /\ [][NextPage]_vars

(***************************************************************************)
(* Search pagination and the cursor.                                       *)
(***************************************************************************)
\* rowids of the stored rows a query matches, whatever its cursor
Matching(query) ==
    {r.rowid : r \in {x \in Range(file.messages) :
                        SearchWhere(x, [SearchStmt(query, "none").args
                                           EXCEPT !.byCursor = FALSE])}}

NoneOmitted == pager.state = "done" => Matching(pager.query) \subseteq Range(pager.seen)

NoneTwice == Len(pager.seen) = Cardinality(Range(pager.seen))

\* C1: a caller that starts without a cursor and follows the returned cursors
\* until (-1, -1) comes back has then been given every matching row, and no
\* row on two pages.
C1_EveryMatchOnce == NoneOmitted /\ NoneTwice

\* C2: the cursor of a response is the (time, rowid) of the last row of the
\* page in the order of the query (time DESC, rowid DESC), and (-1, -1) for
\* an empty page.
C2_CursorIsLastRow ==
    (last.op = "found" /\ last.settled = "resolved") =>
        LET rows == last.rows
            response == last.response
        IN  IF rows = <<>>
            THEN response.lastTime = -1 /\ response.lastId = -1
            ELSE /\ response.lastTime = rows[Len(rows)].time
                 /\ response.lastId = rows[Len(rows)].rowid

(***************************************************************************)
(* getMessages and deleteChannel.                                          *)
(***************************************************************************)
Loaded == last.op = "loaded" /\ last.settled = "resolved"

\* the stored rows of the channel a delivered getMessages asked for
Stored == {r \in Range(file.messages) : InChannel(r, last.args)}

TimesOf(msgs) == [i \in DOMAIN msgs |-> msgs[i].time]

\* C3: the messages getMessages resolves with are in non-decreasing order of
\* time, in whatever order they were indexed.
C3_Chronological ==
    Loaded => \A i, j \in DOMAIN last.result :
                 i < j => last.result[i].time <= last.result[j].time

\* rows of the channel indexed out of order came back as times 1, 2, 3
C3_Witness ==
    /\ Loaded
    /\ TimesOf(last.result) = <<1, 2, 3>>
    /\ \E r, q \in Stored : r.rowid < q.rowid /\ r.time > q.time

EffectiveLimit ==
    IF maxHistory = 0 THEN 0
    ELSE IF maxHistory < 0 THEN 100000
    ELSE maxHistory

\* C4: getMessages returns no more rows than the effective limit: none, and
\* without a statement, for maxHistory = 0; at most maxHistory for a
\* positive one; at most 100,000 for a negative one.
C4_AtMostLimit ==
    /\ \A h \in DOMAIN handles : \A i \in DOMAIN handles[h].queue :
          handles[h].queue[i].kind = "select" =>
              /\ maxHistory # 0
              /\ handles[h].queue[i].args.limit = EffectiveLimit
    /\ Loaded => maxHistory # 0 /\ Len(last.result) <= EffectiveLimit
    /\ (last.op = "getMessages" /\ maxHistory = 0) =>
           last.settled = "resolved" /\ last.result = <<>>

\* more rows were stored for the channel than the limit lets through
C4_Witness ==
    /\ Loaded
    /\ maxHistory > 0
    /\ Cardinality(Stored) > maxHistory
    /\ Len(last.result) = maxHistory

Returned(t) == Cardinality({i \in DOMAIN last.result : last.result[i].time = t})

Kept(t) == Cardinality({r \in Stored : r.time = t})

\* C5: when more rows match than the limit N, the N most recent are returned:
\* no row left out is newer than a returned one.
C5_MostRecent ==
    Loaded =>
        /\ Len(last.result) = Min(Cardinality(Stored), last.args.limit)
        /\ \A i \in DOMAIN last.result : Returned(last.result[i].time) <= Kept(last.result[i].time)
        /\ \A i \in DOMAIN last.result : \A r \in Stored :
              Returned(r.time) < Kept(r.time) => last.result[i].time >= r.time

\* an older row of the channel was left out
C5_Witness ==
    /\ Loaded
    /\ Cardinality(Stored) > last.args.limit
    /\ last.result # <<>>
    /\ \E r \in Stored : r.time < last.result[1].time

\* the DELETE of a deleteChannel(network, channel) call runs on handle h
DeleteRuns(h) ==
    /\ h \in DOMAIN handles
    /\ handles[h].status = "open"
    /\ handles[h].queue # <<>>
    /\ Head(handles[h].queue).kind = "delete"
    /\ handles'[h].queue = Tail(handles[h].queue)

\* C6: deleteChannel(network, channel) removes the rows whose network is
\* network.uuid and whose channel is the lowercased channel.name, and leaves
\* every other row as it was.
C6_DeletesOnlyChannel ==
    [][\A h \in 1..MaxHandles :
          DeleteRuns(h) =>
             LET call == Head(handles[h].queue).call
             IN  file'.messages =
                    SelectSeq(file.messages,
                              LAMBDA r : ~(r.network = call.network.uuid
                                           /\ r.channel = toLowerCase(call.channel.name)))]_vars

\* a delete removed rows of its channel while rows of another channel or
\* network stayed
C6_Witness ==
    /\ last.op = "ran"
    /\ last.kind = "delete"
    /\ last.changes > 0
    /\ file.messages # <<>>

(***************************************************************************)
(* The disabled store, close, and the order of statements on a handle.     *)
(***************************************************************************)
CallOps == {"index", "deleteChannel", "getMessages", "search"}

\* what a call on a disabled store must be: nothing scheduled, no row
\* changed, nothing thrown, an empty result from getMessages and search
NoOp ==
    /\ handles' = handles
    /\ file' = file
    /\ ~last'.threw
    /\ last'.op \in {"getMessages", "search"} =>
           last'.settled = "resolved" /\ last'.result = <<>>

\* with the flag clear every call is a no-op
FlagClearIsNoOp ==
    [][(~isEnabled /\ last'.op \in CallOps) => (NoOp /\ ~canProvideMessages)]_vars

\* C7: while the store is disabled (never enabled, directory not created,
\* engine missing, closed) index, deleteChannel, getMessages and search are
\* no-ops and canProvideMessages() is false.
C7_DisabledIsNoOp ==
    [][((~isEnabled \/ ~sqlite3) /\ last'.op \in CallOps) =>
          (NoOp /\ ~canProvideMessages')]_vars

\* C8: close(callback) on a store that is not enabled calls the callback at
\* once, without an error.
C8_CloseCallsBack ==
    (last.op = "close" /\ ~last.wasEnabled /\ last.hasCallback) =>
        (last.called /\ ~last.threw)

\* positions of the close scheduled on handle h
ClosePositions(h) == {i \in DOMAIN handles[h].queue : handles[h].queue[i].kind = "close"}

\* no statement of a caller was scheduled on a handle after its close, and
\* none waits on a closed handle
NothingBehindClose ==
    \A h \in DOMAIN handles :
        /\ \A i \in ClosePositions(h) : \A j \in DOMAIN handles[h].queue :
              i < j => handles[h].queue[j].kind \notin CallerKinds
        /\ handles[h].status = "closed" =>
              \A j \in DOMAIN handles[h].queue : handles[h].queue[j].kind \notin CallerKinds

\* close() on an enabled store clears the flag and schedules the close, and
\* calls nothing back yet
CloseCall ==
    (isEnabled /\ database # 0 /\ last'.op = "close") =>
        /\ ~isEnabled'
        /\ ~last'.called
        /\ Len(handles'[database].queue) = Len(handles[database].queue) + 1
        /\ handles'[database].queue[Len(handles'[database].queue)].kind = "close"

\* the callback of close is called when the close has run, with its error,
\* and the flag is not touched
CloseCallback ==
    (last'.op = "closed" /\ handles' # handles) =>
        /\ isEnabled' = isEnabled
        /\ last'.called = last'.hasCallback
        /\ last'.passed = last'.err
        /\ ~last'.err => handles'[last'.handle].status = "closed"
        /\ Head(handles[last'.handle].queue).kind = "close"

\* C9: close() on an enabled store clears the flag before the handle starts
\* to close, so a call that arrives afterwards schedules nothing on the
\* closing handle; the callback is called once the handle has closed, with
\* the error if any; the flag stays clear until the next enable().
C9_CloseHandsOff ==
    /\ []NothingBehindClose
    /\ [][/\ CloseCall
          /\ CloseCallback
          /\ (~isEnabled /\ last'.op \in CallOps) => handles' = handles
          /\ (~isEnabled /\ isEnabled') => last'.op = "enable"]_vars

\* a call arrived while the close was still waiting on the handle
C9_Witness ==
    /\ last.op \in CallOps
    /\ ~last.wasEnabled
    /\ \E h \in DOMAIN handles : handles[h].status # "closed" /\ ClosePositions(h) # {}

Kinds(h) == [i \in DOMAIN handles[h].queue |-> handles[h].queue[i].kind]

\* the schema statements still waiting are the last ones of schema, in
\* order and exclusive, ahead of every statement of a caller
SchemaFirst ==
    \A h \in DOMAIN handles :
        LET q == handles[h].queue
            creates == SelectSeq(q, LAMBDA st : st.kind = "create")
        IN  /\ \A i, j \in DOMAIN q :
                  (q[i].kind = "create" /\ q[j].kind \in CallerKinds) => i < j
            /\ \A i \in DOMAIN q : q[i].kind = "create" => q[i].exclusive
            /\ [i \in DOMAIN creates |-> creates[i].args.object]
                   = SubSeq(schema, Len(schema) - Len(creates) + 1, Len(schema))

\* a statement of a caller runs on handle h
CallerRuns(h) ==
    /\ h \in DOMAIN handles
    /\ handles[h].status = "open"
    /\ \E i \in DOMAIN handles[h].queue :
          /\ handles[h].queue[i].kind \in CallerKinds
          /\ handles'[h].queue = RemoveAt(handles[h].queue, i)

\* C10: the statements of index, deleteChannel, getMessages and search run
\* on a handle after the schema statements enable() issued on it, also when
\* they were submitted right after enable() returned.
C10_SchemaBeforeStatements ==
    /\ []SchemaFirst
    /\ [][\A h \in 1..MaxHandles :
             CallerRuns(h) =>
                /\ \A i \in DOMAIN handles[h].queue : handles[h].queue[i].kind # "create"
                /\ HasSchema(file)
                /\ last'.op = "ran" => ~last'.err
                /\ last'.op \in {"loaded", "found"} => last'.settled = "resolved"]_vars

\* a statement of a caller waits behind schema statements that have not run
C10_Witness ==
    \E h \in DOMAIN handles :
        /\ ~HasSchema(file)
        /\ \E i, j \in DOMAIN handles[h].queue :
              handles[h].queue[i].kind = "create" /\ handles[h].queue[j].kind \in CallerKinds

(***************************************************************************)
(* The schema version.                                                     *)
(***************************************************************************)
SchemaKinds == {"create", "getVersion", "insertVersion", "updateVersion"}

\* no statement of the schema phase failed in the step taken, and enable()
\* did not throw
NoSchemaError ==
    /\ last'.op = "enable" => ~last'.threw
    /\ last'.op = "version" => ~last'.err
    /\ (last'.op = "ran" /\ last'.kind \in SchemaKinds) => ~last'.err

\* C11: opening the same data file twice in sequence (open, optionally
\* close, open again, each once the step before has finished) raises no
\* error, and the options table never holds more than one schema_version row.
C11_OpenIdempotent ==
    /\ [](Len(file.options) <= 1)
    /\ [][NoSchemaError]_vars

\* the second handle on the file has read the version the first one left,
\* after the first was closed
C11_Witness ==
    /\ Len(handles) = 2
    /\ handles[1].status = "closed"
    /\ last.op = "version"
    /\ ~last.err
    /\ Len(file.options) = 1

\* some handle was opened and no handle has a statement of the schema phase
\* left to run
SchemaDone ==
    /\ handles # <<>>
    /\ \A h \in DOMAIN handles :
          /\ handles[h].status # "opening"
          /\ \A i \in DOMAIN handles[h].queue : handles[h].queue[i].kind \notin SchemaKinds

\* C12: once the store has been opened, exactly one schema_version row
\* exists, and it holds the current version unless a newer one was stored:
\* an absent row was inserted, a lower version was updated, an equal one was
\* left alone; whatever calls followed enable(), close() included.
C12_OneVersionRow ==
    SchemaDone =>
        /\ Len(file.options) = 1
        /\ parseInt(file.options[1]) >= currentSchemaVersion

\* the version the options table holds is above the current one
StoredNewer ==
    /\ file.options # <<>>
    /\ parseInt(file.options[1]) > currentSchemaVersion

\* C13: with a stored schema version above the current one, enable()
\* reports an error, writes neither the options table nor the schema, and
\* the store is enabled all the same: canProvideMessages() is true and the
\* statements of index, getMessages and search run on the tables.
C13_NewerVersionKept ==
    [][StoredNewer =>
          /\ file'.options = file.options
          /\ file'.objects = file.objects
          /\ last'.op = "version" => (last'.logged /\ ~last'.err)
          /\ (last'.op = "enable" /\ last'.opened) =>
                 (isEnabled' /\ canProvideMessages' /\ ~last'.threw)
          /\ (last'.op = "ran" /\ last'.kind = "insert") =>
                 (~last'.err /\ Len(file'.messages) = Len(file.messages) + 1)
          /\ last'.op \in {"loaded", "found"} => last'.settled = "resolved"]_vars

\* a message indexed into the file with the newer version was loaded, the
\* store enabled
C13_Witness ==
    /\ StoredNewer
    /\ isEnabled
    /\ canProvideMessages
    /\ Loaded
    /\ Len(last.result) = 1

(***************************************************************************)
(* Channel scoping.                                                        *)
(***************************************************************************)
FoldCase(c) ==
    CASE c \in {"A", "a"} -> "a"
      [] c \in {"B", "b"} -> "b"
      [] OTHER -> c

\* the same name up to the case of its letters
SameName(x, y) ==
    /\ Len(x) = Len(y)
    /\ \A i \in DOMAIN x : FoldCase(x[i]) = FoldCase(y[i])

\* the message o was indexed on network uuid under a casing of name; an
\* empty uuid or name leaves that side open (search)
InScope(o, uuid, name) ==
    /\ uuid # "" => o.net = uuid
    /\ name # <<>> => SameName(o.chan, name)

\* the stored rows whose message was indexed within the scope
RowsInScope(uuid, name) ==
    SelectSeq(file.messages, LAMBDA r : InScope(JSONparse(r.msg), uuid, name))

\* the messages given back are those indexed within the scope, all of them
GivesScope(msgs, uuid, name) ==
    /\ \A i \in DOMAIN msgs : InScope(msgs[i], uuid, name)
    /\ Len(msgs) = Len(RowsInScope(uuid, name))

\* C14: scoping is by channel name whatever its casing and by the exact
\* network uuid: getMessages returns, search with a scope matches, and
\* deleteChannel removes the messages indexed under any casing of the name
\* on that network, and none of another network or another name.
C14_ScopeIgnoresCase ==
    [][/\ (last'.op = "loaded" /\ last'.settled = "resolved") =>
             GivesScope(last'.result, last'.call.network.uuid, last'.call.channel.name)
       /\ (last'.op = "found" /\ last'.settled = "resolved") =>
             GivesScope(last'.response.results, last'.call.query.networkUuid,
                        last'.call.query.channelName)
       /\ \A h \in 1..MaxHandles :
             DeleteRuns(h) =>
                LET call == Head(handles[h].queue).call
                IN  file'.messages =
                       SelectSeq(file.messages,
                                 LAMBDA r : ~InScope(JSONparse(r.msg), call.network.uuid,
                                                     call.channel.name))]_vars

\* a message indexed as #A was loaded as #a while a message of the other
\* network under the same name stayed out
C14_Witness ==
    /\ Loaded
    /\ last.call.channel.name = <<"#", "a">>
    /\ \E i \in DOMAIN last.result : last.result[i].chan = <<"#", "A">>
    /\ \E r \in Range(file.messages) :
          JSONparse(r.msg).net = "n2" /\ SameName(JSONparse(r.msg).chan, <<"#", "a">>)

(***************************************************************************)
(* Search escaping.                                                        *)
(***************************************************************************)
\* text holds term as a run of equal characters
Contains(text, term) ==
    \E i \in 0..(Len(text) - Len(term)) : SubSeq(text, i + 1, i + Len(term)) = term

\* text holds term as a run of characters equal up to the case of letters
ContainsNoCase(text, term) ==
    \E i \in 0..(Len(text) - Len(term)) :
        \A j \in 1..Len(term) : FoldCase(text[i + j]) = FoldCase(term[j])

Found == last.op = "found" /\ last.settled = "resolved"

\* the text of the one stored message
StoredText == JSONparse(file.messages[1].msg).text

\* C15 as stated: a stored message matches exactly when its text contains
\* the term as a literal substring; %, _ and @ in the term are plain
\* characters.
C15_LiteralSubstring ==
    Found => (last.rows # <<>> <=> Contains(StoredText, last.call.query.searchTerm))

\* C15: a stored message matches exactly when its text contains the term
\* as a substring compared without regard to the case of ASCII letters; %,
\* _ and @ in the term are plain characters, never wildcards or escapes.
C15_SubstringNoCase ==
    Found => (last.rows # <<>> <=> ContainsNoCase(StoredText, last.call.query.searchTerm))

\* a term holding _ did not match a text of letters only, and a term holding
\* % is matched by the text that holds it
C15_Witness ==
    /\ Found
    /\ \/ /\ last.call.query.searchTerm = <<"_">>
          /\ StoredText = <<"a", "a">>
          /\ last.rows = <<>>
       \/ /\ last.call.query.searchTerm = <<"%", "@">>
          /\ StoredText = <<"a", "%", "@">>
          /\ last.rows # <<>>

(***************************************************************************)
(* The directory step of enable().                                         *)
(***************************************************************************)
\* the step taken is an enable() whose directory could not be created: it
\* returned without throwing and opened nothing
MkdirFailed == last'.op = "enable" /\ ~last'.opened /\ ~last'.threw

\* C16: enable() sets the flag only once the directory step has succeeded:
\* when the directory cannot be created it returns without throwing, the
\* flag stays as it was (false), no handle is opened, and the calls that
\* follow on the disabled store are no-ops.
C16_MkdirFailureLeavesDisabled ==
    [][/\ MkdirFailed =>
             /\ isEnabled' = isEnabled
             /\ database' = database
             /\ handles' = handles
             /\ file' = file
       /\ (~isEnabled /\ handles = <<>> /\ last'.op \in CallOps) =>
             (NoOp /\ ~isEnabled' /\ handles' = <<>>)]_vars

\* enable() failed at the directory on a new store, which is left disabled
\* and without a handle
C16_Witness ==
    /\ last.op = "enable"
    /\ ~last.opened
    /\ ~last.threw
    /\ ~isEnabled
    /\ database = 0
    /\ handles = <<>>

(***************************************************************************)
(* Message identifiers.                                                    *)
(***************************************************************************)
\* the statements of getMessages waiting on some handle: calls made and not
\* yet delivered
SelectsWaiting ==
    {<<h, i>> \in (DOMAIN handles) \X (1..QueueCap) :
        i \in DOMAIN handles[h].queue /\ handles[h].queue[i].kind = "select"}

\* C17: every message getMessages delivers gets a fresh identifier of the
\* client, in whatever order the callbacks of the calls made complete: a
\* delivery takes the identifiers from the client's counter as it is when
\* the callback runs, one after the other in chronological position, and
\* leaves the counter behind the last one; no other step moves the counter
\* and it never goes back, so no identifier is given twice, also when
\* several calls were waiting together.
C17_FreshIds ==
    [][/\ idMsg' >= idMsg
       /\ (last'.op = "loaded" /\ last'.settled = "resolved") =>
             /\ idMsg' = idMsg + Len(last'.result)
             /\ \A i \in DOMAIN last'.result : last'.result[i].id = idMsg + i - 1
             /\ \A i, j \in DOMAIN last'.result :
                   i < j => /\ last'.result[i].id < last'.result[j].id
                            /\ last'.result[i].time <= last'.result[j].time
       /\ ~(last'.op = "loaded" /\ last'.settled = "resolved") => idMsg' = idMsg]_vars

\* a delivery of two messages after identifiers had been given out, while
\* the statement of another getMessages call is still waiting
C17_Witness ==
    /\ Loaded
    /\ Len(last.result) >= 2
    /\ last.result[1].id > 1
    /\ idMsg = last.result[Len(last.result)].id + 1
    /\ SelectsWaiting # {}

(***************************************************************************)
(* Statement errors.                                                       *)
(***************************************************************************)
\* the statements of getMessages and search waiting on handle h: each is a
\* promise not settled yet
Promises(h) == SelectSeq(handles[h].queue, LAMBDA st : st.kind \in {"select", "search"})

\* the step taken settles a promise
Settles == last'.op \in {"loaded", "found"}

\* C18: a statement error in getMessages or search rejects the promise of
\* that call: the callback is called once, with the statement gone from the
\* handle and none scheduled in its place (no retry), and the flag, the
\* stored rows and the client's counter are as before.  A promise is
\* settled only by the callback of its own statement, so never twice.
C18_ErrorRejectsOnce ==
    [][/\ (Settles /\ "failed" \in DOMAIN last') =>
             /\ last'.settled = "rejected"
             /\ isEnabled' = isEnabled
             /\ file' = file
             /\ idMsg' = idMsg
       /\ Settles =>
             /\ Len(handles'[1].queue) = Len(handles[1].queue) - 1
             /\ Len(Promises(1)') = Len(Promises(1)) - 1
             /\ last'.settled \in {"resolved", "rejected"}
       /\ ~Settles => Len(Promises(1)') >= Len(Promises(1))]_vars

\* a getMessages was rejected while rows were stored and another statement
\* waited behind it
C18_Witness ==
    /\ last.op = "loaded"
    /\ last.settled = "rejected"
    /\ file.messages # <<>>
    /\ handles[1].queue # <<>>
    /\ isEnabled

(***************************************************************************)
(* Read after write.                                                       *)
(***************************************************************************)
RECURSIVE RunWrites(_, _)
\* the rows of messages once the statements of q have run, in the order of q
RunWrites(rows, q) ==
    IF q = <<>> THEN rows
    ELSE RunWrites(CASE Head(q).kind = "insert" -> InsertRow(rows, Head(q).args)
                     [] Head(q).kind = "delete" -> DeleteRows(rows, Head(q).args)
                     [] OTHER -> rows,
                   Tail(q))

\* the rows of the channel of a once the calls whose statements are q have
\* taken effect on rows
Foreseen(rows, q, a) == SelectSeq(RunWrites(rows, q), LAMBDA r : InChannel(r, a))

\* msgs are the messages of rows: as many, with the same times
SameTimes(msgs, rows) ==
    /\ Len(msgs) = Len(rows)
    /\ \A t \in {rows[i].time : i \in DOMAIN rows} \cup {msgs[i].time : i \in DOMAIN msgs} :
          Cardinality({i \in DOMAIN msgs : msgs[i].time = t})
              = Cardinality({i \in DOMAIN rows : rows[i].time = t})

\* the position in q2 of the statement at position j of q, when q2 is q with
\* the statement at position i gone
Moved(i, j) == IF i < j THEN j - 1 ELSE j

\* C19: a getMessages call sees the index (and deleteChannel) calls made
\* before it, acknowledged or not: the rows its statement will find are, from
\* the call on, those the calls made before it leave in the channel; no call
\* made later and no statement that runs while it waits changes them; and
\* with no more of them than the limit its result is their messages.
C19_ReadAfterWrite ==
    [][LET q == handles[1].queue
           q2 == handles'[1].queue
       IN  /\ (last'.op = "getMessages" /\ last'.settled = "pending") =>
                 \E j \in DOMAIN q2 :
                     /\ q = RemoveAt(q2, j)
                     /\ q2[j].kind = "select"
                     /\ Foreseen(file'.messages, SubSeq(q2, 1, j - 1), q2[j].args)
                            = Foreseen(file.messages, q, q2[j].args)
           /\ \A j \in DOMAIN q :
                 (q[j].kind = "select" /\ Len(q2) > Len(q)) =>
                     /\ q2[j] = q[j]
                     /\ Foreseen(file'.messages, SubSeq(q2, 1, j - 1), q[j].args)
                            = Foreseen(file.messages, SubSeq(q, 1, j - 1), q[j].args)
           /\ \A i, j \in DOMAIN q :
                 (q[j].kind = "select" /\ i # j /\ q2 = RemoveAt(q, i)) =>
                     Foreseen(file'.messages, SubSeq(q2, 1, Moved(i, j) - 1), q[j].args)
                        = Foreseen(file.messages, SubSeq(q, 1, j - 1), q[j].args)
           /\ (last'.op = "loaded" /\ last'.settled = "resolved") =>
                 \E i \in DOMAIN q :
                     /\ q2 = RemoveAt(q, i)
                     /\ q[i].kind = "select"
                     /\ LET rows == Foreseen(file.messages, SubSeq(q, 1, i - 1), q[i].args)
                        IN  Len(rows) <= q[i].args.limit => SameTimes(last'.result, rows)]_vars

\* getMessages was called for a channel while the INSERT of an index call
\* for that channel had not run yet
C19_Witness ==
    /\ last.op = "getMessages"
    /\ last.settled = "pending"
    /\ \E i, j \in DOMAIN handles[1].queue :
          /\ i < j
          /\ handles[1].queue[i].kind = "insert"
          /\ handles[1].queue[j].kind = "select"
          /\ InChannel(handles[1].queue[i].args, handles[1].queue[j].args)
          /\ Len(Foreseen(file.messages, SubSeq(handles[1].queue, 1, j - 1),
                          handles[1].queue[j].args)) < handles[1].queue[j].args.limit

(***************************************************************************)
(* The flag and the handle.                                                *)
(***************************************************************************)
\* this.database is a handle that is not closed and that no close() has
\* been called on
HandleInUse ==
    /\ database \in DOMAIN handles
    /\ handles[database].status # "closed"
    /\ ClosePositions(database) = {}

\* no handle has more than one close scheduled on it
ClosedOnce == \A h \in DOMAIN handles : Cardinality(ClosePositions(h)) <= 1

\* with the engine loaded the flag is only set while the handle is in use
LoadedEngineHasHandle == sqlite3 => ((isEnabled => HandleInUse) /\ ClosedOnce)

\* C20: whenever the flag is set, the store has a database handle that is
\* open or opening and not being closed, whatever calls were made; and no
\* handle is closed by more than one close().
C20_EnabledHasHandle == (isEnabled => HandleInUse) /\ ClosedOnce
====
